---- MODULE Spec2Model ----
(***************************************************************************)
(* drone-jira: the orchestration of one plugin run (plugin.Exec) and the   *)
(* pure helpers it is built from (issue-key extraction, instance name).    *)
(*                                                                         *)
(* Strings that the program inspects character by character (text         *)
(* sources, project key, instance) are sequences of one-character         *)
(* strings, one element per byte of the Go string; a character outside    *)
(* ASCII is the sequence of the bytes of its UTF-8 encoding, each named   *)
(* by its hexadecimal value.  Strings that are only compared with "" or   *)
(* copied are TLA+ strings.                                                *)
(***************************************************************************)
EXTENDS Integers, Sequences, FiniteSets, TLC

VARIABLES
    args,       \* the Args value Exec was called with
    pc,         \* where the run stands: the blocking call it waits for, or "done"
    issues,     \* Exec's local issues
    cloudID,    \* Exec's local cloudID (OAuth branch)
    calls,      \* every HTTP request issued so far, in order
    responses,  \* the answer each finished request got, in the order of calls
    err,        \* the error Exec returned ("nil" while running and on success)
    cards,      \* the cards handed to writeCard, in order
    written,    \* for each card, whether the sink at CardFilePath took it
    ctx,        \* Exec's context: "live" or "cancelled"
    extracted,  \* TRUE once extractIssues has been called in this run
    jira,       \* the status Jira holds for the issue (never read by Exec)
    out         \* result of a helper applied on its own (helper specification)

vars == <<args, pc, issues, cloudID, calls, responses, err, cards, written,
          ctx, extracted, jira, out, written, ctx>>

----------------------------------------------------------------------------
(* Bounds of the model *)

\* number of chunks a generated commit message is built from
MaxChunks == 3

\* number of chunks a generated instance setting is built from
MaxInstanceChunks == 4

\* number of one-byte characters a generated long commit message ends with
MaxMessageTail == 258

----------------------------------------------------------------------------
(* Character strings *)

Digits == {"0", "1", "2", "3", "4", "5", "6", "7", "8", "9"}

RECURSIVE Flatten(_)
\* concatenation of a sequence of character strings
Flatten(ss) == IF ss = <<>> THEN <<>> ELSE Head(ss) \o Flatten(Tail(ss))

\* s occurs in t starting at position i (1-based)
PrefixAt(s, t, i) ==
    /\ i >= 1
    /\ i + Len(s) - 1 <= Len(t)
    /\ \A k \in 1..Len(s) : t[i + k - 1] = s[k]

RECURSIVE DigitRun(_, _)
\* \d+ is greedy: the number of consecutive digits of t from position i on
DigitRun(t, i) ==
    IF i <= Len(t) /\ t[i] \in Digits THEN 1 + DigitRun(t, i + 1) ELSE 0

\* the expression without the project key in front:  "\\-\\d+"
MatchLenNoProject(project, t, i) ==
    LET lit == <<"-">>
        n   == DigitRun(t, i + Len(lit))
    IN  IF PrefixAt(lit, t, i) /\ n > 0 THEN Len(lit) + n ELSE 0

\* length of the match of  Project + "\\-\\d+"  anchored at position i of t,
\* 0 when the expression does not match there
MatchLen(project, t, i) ==
    LET lit == project \o <<"-">>
        n   == DigitRun(t, i + Len(lit))
    IN  IF PrefixAt(lit, t, i) /\ n > 0 THEN Len(lit) + n ELSE 0

RECURSIVE FindFrom(_, _, _)
\* leftmost position >= i where the expression matches, 0 when there is none
FindFrom(project, t, i) ==
    IF i > Len(t) THEN 0
    ELSE IF MatchLen(project, t, i) > 0 THEN i
    ELSE FindFrom(project, t, i + 1)

\* Regexp.FindString: the text of the leftmost match, "" when there is none
FindString(project, t) ==
    LET i == FindFrom(project, t, 1)
    IN  IF i = 0 THEN <<>> ELSE SubSeq(t, i, i + MatchLen(project, t, i) - 1)

RECURSIVE FindAllFrom(_, _, _)
FindAllFrom(project, t, i) ==
    LET j == FindFrom(project, t, i)
    IN  IF j = 0 THEN <<>>
        ELSE LET n == MatchLen(project, t, j)
             IN  <<SubSeq(t, j, j + n - 1)>> \o FindAllFrom(project, t, j + n)

\* Regexp.FindAllString(t, -1): successive non-overlapping matches
FindAllString(project, t) == FindAllFrom(project, t, 1)

RECURSIVE Sprintln(_)
\* fmt.Sprintln: operands separated by one space, a newline appended
Sprintln(operands) ==
    IF operands = <<>> THEN <<"\n">>
    ELSE IF Len(operands) = 1 THEN Head(operands) \o <<"\n">>
    ELSE Head(operands) \o <<" ">> \o Sprintln(Tail(operands))

----------------------------------------------------------------------------
(* Issue-key extraction *)

\* the text sources, in the order they are handed to Sprintln
TextSources(a) ==
    <<a.Commit.Message, a.PullRequest.Title, a.Commit.Source,
      a.Commit.Target, a.Commit.Branch>>

\* an earlier revision of the helper, which does not look at Commit.Branch
extractIssueNoBranch(a) ==
    FindString(a.Project,
               Sprintln(<<a.Commit.Message, a.PullRequest.Title,
                          a.Commit.Source, a.Commit.Target>>))

extractIssue(a) == FindString(a.Project, Sprintln(TextSources(a)))

\* only the first match, as the scalar helper
extractIssuesFirstOnly(a) ==
    LET m == FindString(a.Project, Sprintln(TextSources(a)))
    IN  IF m = <<>> THEN <<>> ELSE <<m>>

extractIssues(a) == FindAllString(a.Project, Sprintln(TextSources(a)))

----------------------------------------------------------------------------
(* Instance name.  net/url is modelled for instance strings over letters,  *)
(* digits and the characters  . : / -  (no userinfo, query, fragment,      *)
(* escapes or bracketed hosts).                                            *)

Letters ==
    {"a", "b", "c", "d", "e", "f", "g", "h", "i", "j", "k", "l", "m",
     "n", "o", "p", "q", "r", "s", "t", "u", "v", "w", "x", "y", "z",
     "A", "B", "C", "D", "E", "F", "G", "H", "I", "J", "K", "L", "M",
     "N", "O", "P", "Q", "R", "S", "T", "U", "V", "W", "X", "Y", "Z"}

\* strings.Contains
Contains(t, s) == \E i \in 1..(Len(t) + 1) : PrefixAt(s, t, i)

RECURSIVE IndexFrom(_, _, _)
IndexFrom(t, c, i) ==
    IF i > Len(t) THEN 0 ELSE IF t[i] = c THEN i ELSE IndexFrom(t, c, i + 1)

\* strings.IndexByte, 1-based, 0 when c does not occur
IndexByte(t, c) == IndexFrom(t, c, 1)

\* strings.LastIndex of a single character, 1-based, 0 when c does not occur
LastIndexByte(t, c) ==
    IF \E i \in 1..Len(t) : t[i] = c
    THEN CHOOSE i \in 1..Len(t) : t[i] = c /\ \A k \in (i + 1)..Len(t) : t[k] # c
    ELSE 0

\* strings.Split(t, ".")[0]
FirstLabel(t) ==
    LET i == IndexByte(t, ".") IN IF i = 0 THEN t ELSE SubSeq(t, 1, i - 1)

RECURSIVE getSchemeFrom(_, _)
getSchemeFrom(rawURL, i) ==
    IF i > Len(rawURL) THEN [scheme |-> <<>>, path |-> rawURL, err |-> FALSE]
    ELSE LET c == rawURL[i]
         IN  IF c \in Letters THEN getSchemeFrom(rawURL, i + 1)
             ELSE IF c \in Digits \cup {"+", "-", "."}
             THEN IF i = 1
                  THEN [scheme |-> <<>>, path |-> rawURL, err |-> FALSE]
                  ELSE getSchemeFrom(rawURL, i + 1)
             ELSE IF c = ":"
             THEN IF i = 1
                  THEN [scheme |-> <<>>, path |-> <<>>, err |-> TRUE]
                  ELSE [scheme |-> SubSeq(rawURL, 1, i - 1),
                        path   |-> SubSeq(rawURL, i + 1, Len(rawURL)),
                        err    |-> FALSE]
             ELSE [scheme |-> <<>>, path |-> rawURL, err |-> FALSE]

\* url.getScheme
getScheme(rawURL) == getSchemeFrom(rawURL, 1)

\* url.validOptionalPort
validOptionalPort(port) ==
    \/ port = <<>>
    \/ /\ port[1] = ":"
       /\ \A k \in 2..Len(port) : port[k] \in Digits

\* url.parseHost: the host, or an error for an invalid port
parseHost(host) ==
    LET i == LastIndexByte(host, ":")
    IN  IF i # 0 /\ ~validOptionalPort(SubSeq(host, i, Len(host)))
        THEN [Host |-> <<>>, err |-> TRUE]
        ELSE [Host |-> host, err |-> FALSE]

\* url.Parse, as far as Host is concerned
urlParse(rawURL) ==
    LET s    == getScheme(rawURL)
        rest == s.path
        seg  == LET i == IndexByte(rest, "/")
                IN  IF i = 0 THEN rest ELSE SubSeq(rest, 1, i - 1)
    IN  IF s.err THEN [Host |-> <<>>, err |-> TRUE]
        ELSE IF ~PrefixAt(<<"/">>, rest, 1) /\ s.scheme # <<>>
        THEN [Host |-> <<>>, err |-> FALSE]            \* opaque
        ELSE IF ~PrefixAt(<<"/">>, rest, 1) /\ Contains(seg, <<":">>)
        THEN [Host |-> <<>>, err |-> TRUE]
        ELSE IF /\ s.scheme # <<>> \/ ~PrefixAt(<<"/", "/", "/">>, rest, 1)
                /\ PrefixAt(<<"/", "/">>, rest, 1)
        THEN LET auth == SubSeq(rest, 3, Len(rest))
                 i    == IndexByte(auth, "/")
             IN  parseHost(IF i = 0 THEN auth ELSE SubSeq(auth, 1, i - 1))
        ELSE [Host |-> <<>>, err |-> FALSE]

\* URL.Hostname: Host without the port
Hostname(host) ==
    LET colon == IndexByte(host, ":")
    IN  IF colon = 0 THEN host ELSE SubSeq(host, 1, colon - 1)

\* the whole host name is returned for a URL, not its first label
ExtractInstanceNameWholeHost(instance) ==
    IF Contains(instance, <<":", "/", "/">>)
    THEN LET parsedURL == urlParse(instance)
         IN  IF ~parsedURL.err
             THEN Hostname(parsedURL.Host)
             ELSE instance
    ELSE FirstLabel(instance)

\* parsedURL.Host is split instead of parsedURL.Hostname()
ExtractInstanceNameKeepsPort(instance) ==
    IF Contains(instance, <<":", "/", "/">>)
    THEN LET parsedURL == urlParse(instance)
         IN  IF ~parsedURL.err
             THEN FirstLabel(parsedURL.Host)
             ELSE instance
    ELSE FirstLabel(instance)

ExtractInstanceName(instance) ==
    IF Contains(instance, <<":", "/", "/">>)
    THEN LET parsedURL == urlParse(instance)
         IN  IF ~parsedURL.err
             THEN FirstLabel(Hostname(parsedURL.Host))
             ELSE instance
    ELSE FirstLabel(instance)

----------------------------------------------------------------------------
(* Normalisers of state and environment *)

UpperLetters ==
    <<"A", "B", "C", "D", "E", "F", "G", "H", "I", "J", "K", "L", "M",
      "N", "O", "P", "Q", "R", "S", "T", "U", "V", "W", "X", "Y", "Z">>

LowerLetters ==
    <<"a", "b", "c", "d", "e", "f", "g", "h", "i", "j", "k", "l", "m",
      "n", "o", "p", "q", "r", "s", "t", "u", "v", "w", "x", "y", "z">>

\* unicode.ToLower on the characters of the model
ToLowerChar(c) ==
    IF \E i \in 1..26 : UpperLetters[i] = c
    THEN LowerLetters[CHOOSE i \in 1..26 : UpperLetters[i] = c]
    ELSE c

\* strings.ToLower
ToLower(s) == [i \in 1..Len(s) |-> ToLowerChar(s[i])]

\* the switch is made on the string as it was given
toStateEnumCaseSensitive(s) ==
    CASE s \in {<<"p", "e", "n", "d", "i", "n", "g">>, <<"w", "a", "i", "t", "i", "n", "g">>} -> <<"p", "e", "n", "d", "i", "n", "g">>
      [] s \in {<<"r", "u", "n", "n", "i", "n", "g">>, <<"i", "n", "_", "p", "r", "o", "g", "r", "e", "s", "s">>} -> <<"i", "n", "_", "p", "r", "o", "g", "r", "e", "s", "s">>
      [] s \in {<<"c", "a", "n", "c", "e", "l", "l", "e", "d">>, <<"k", "i", "l", "l", "e", "d">>, <<"s", "t", "o", "p", "p", "e", "d">>, <<"t", "e", "r", "m", "i", "n", "a", "t", "e", "d">>} -> <<"c", "a", "n", "c", "e", "l", "l", "e", "d">>
      [] s \in {<<"f", "a", "i", "l", "e", "d">>, <<"f", "a", "i", "l", "u", "r", "e">>, <<"e", "r", "r", "o", "r">>, <<"e", "r", "r", "o", "r", "e", "d">>} -> <<"f", "a", "i", "l", "e", "d">>
      [] s \in {<<"r", "o", "l", "l", "b", "a", "c", "k">>, <<"r", "o", "l", "l", "e", "d", "_", "b", "a", "c", "k">>} -> <<"r", "o", "l", "l", "e", "d", "_", "b", "a", "c", "k">>
      [] s \in {<<"s", "u", "c", "c", "e", "s", "s">>, <<"s", "u", "c", "c", "e", "s", "s", "f", "u", "l">>} -> <<"s", "u", "c", "c", "e", "s", "s", "f", "u", "l">>
      [] OTHER -> <<"u", "n", "k", "n", "o", "w", "n">>

\* toStateEnum: switch strings.ToLower(s)
toStateEnum(s) ==
    LET l == ToLower(s)
    IN  CASE l \in {<<"p", "e", "n", "d", "i", "n", "g">>, <<"w", "a", "i", "t", "i", "n", "g">>} -> <<"p", "e", "n", "d", "i", "n", "g">>
          [] l \in {<<"r", "u", "n", "n", "i", "n", "g">>, <<"i", "n", "_", "p", "r", "o", "g", "r", "e", "s", "s">>} -> <<"i", "n", "_", "p", "r", "o", "g", "r", "e", "s", "s">>
          [] l \in {<<"c", "a", "n", "c", "e", "l", "l", "e", "d">>, <<"k", "i", "l", "l", "e", "d">>, <<"s", "t", "o", "p", "p", "e", "d">>, <<"t", "e", "r", "m", "i", "n", "a", "t", "e", "d">>} -> <<"c", "a", "n", "c", "e", "l", "l", "e", "d">>
          [] l \in {<<"f", "a", "i", "l", "e", "d">>, <<"f", "a", "i", "l", "u", "r", "e">>, <<"e", "r", "r", "o", "r">>, <<"e", "r", "r", "o", "r", "e", "d">>} -> <<"f", "a", "i", "l", "e", "d">>
          [] l \in {<<"r", "o", "l", "l", "b", "a", "c", "k">>, <<"r", "o", "l", "l", "e", "d", "_", "b", "a", "c", "k">>} -> <<"r", "o", "l", "l", "e", "d", "_", "b", "a", "c", "k">>
          [] l \in {<<"s", "u", "c", "c", "e", "s", "s">>, <<"s", "u", "c", "c", "e", "s", "s", "f", "u", "l">>} -> <<"s", "u", "c", "c", "e", "s", "s", "f", "u", "l">>
          [] OTHER -> <<"u", "n", "k", "n", "o", "w", "n">>

\* toState: args.State, else args.Build.Status
toState(a) ==
    IF a.State # <<>> THEN toStateEnum(a.State) ELSE toStateEnum(a.Build.Status)

\* toEnvironmentEnum: switch strings.ToLower(s)
toEnvironmentEnum(s) ==
    LET l == ToLower(s)
    IN  CASE l \in {<<"p", "r", "o", "d">>, <<"p", "r", "o", "d", "u", "c", "t", "i", "o", "n">>} -> <<"p", "r", "o", "d", "u", "c", "t", "i", "o", "n">>
          [] l \in {<<"s", "t", "a", "g", "e">>, <<"s", "t", "a", "g", "i", "n", "g">>} -> <<"s", "t", "a", "g", "i", "n", "g">>
          [] l \in {<<"d", "e", "v">>, <<"d", "e", "v", "e", "l", "o", "p", "m", "e", "n", "t">>} -> <<"d", "e", "v", "e", "l", "o", "p", "m", "e", "n", "t">>
          [] l \in {<<"t", "e", "s", "t", "i", "n", "g">>, <<"t", "e", "s", "t">>} -> <<"t", "e", "s", "t", "i", "n", "g">>
          [] OTHER -> <<"u", "n", "m", "a", "p", "p", "e", "d">>

\* the deploy target is not consulted
toEnvironmentNoTarget(a) ==
    IF a.EnvironmentName # <<>> THEN toEnvironmentEnum(a.EnvironmentName)
    ELSE <<"p", "r", "o", "d", "u", "c", "t", "i", "o", "n">>

\* toEnvironment: args.EnvironmentName, else args.Deploy.Target, else "production"
toEnvironment(a) ==
    IF a.EnvironmentName # <<>> THEN toEnvironmentEnum(a.EnvironmentName)
    ELSE IF a.Deploy.Target # <<>> THEN toEnvironmentEnum(a.Deploy.Target)
    ELSE <<"p", "r", "o", "d", "u", "c", "t", "i", "o", "n">>

\* the supplied id is normalised like an environment name
toEnvironmentIdNormalised(a) ==
    IF a.EnvironmentId # <<>> THEN toEnvironmentEnum(a.EnvironmentId)
    ELSE toEnvironment(a)

\* toEnvironmentId: args.EnvironmentId, else toEnvironment(args)
toEnvironmentId(a) ==
    IF a.EnvironmentId # <<>> THEN a.EnvironmentId ELSE toEnvironment(a)

\* the type defaults like the id does
toEnvironmentTypeLikeId(a) ==
    IF a.EnvironmentType # <<>> THEN a.EnvironmentType ELSE toEnvironment(a)

\* toEnvironmentType: args.EnvironmentType, else ""
toEnvironmentType(a) ==
    IF a.EnvironmentType # <<>> THEN a.EnvironmentType ELSE <<>>

----------------------------------------------------------------------------
(* Requests, payloads, errors *)

DefaultConnectHostname == "https://jira-ci.harness.io"

ErrIssueNotFound == "failed to extract issue number"
ErrMissingCredentials == "No client id & secret or connect token & hostname provided"
ErrCloudIdEmpty == "cloudIdIsEmptySpecifyTheCloudIdOrInstanceName"
ErrTenantLookup == "cannotGetCloudIdFromInstance"
ErrStatusCode == "errorCode"
ErrTransport == "transport error"
ErrJSON == "json error"
PanicTypeAssertion == "panic: interface conversion"

\* len(commitMessage) > 255
DescriptionLimit == 255

\* commitMessage[:252]
DescriptionKept == 252

\* Exec's local commitMessage: args.Commit.Message, truncated.  A Go string
\* is a sequence of bytes: len and the slice count bytes.
commitMessage(a) ==
    IF Len(a.Commit.Message) > DescriptionLimit
    THEN SubSeq(a.Commit.Message, 1, DescriptionKept) \o <<".", ".", ".">>
    ELSE a.Commit.Message

NoEnvironment == [ID |-> <<>>, Displayname |-> <<>>, Type |-> <<>>]

NoPayload ==
    [kind |-> "none", issueKeys |-> <<>>, description |-> <<>>,
     state |-> <<>>, environment |-> NoEnvironment, references |-> <<>>]

\* a nil *CommitInfo
NilCommitInfo == [nil |-> TRUE, ID |-> <<>>, RepositoryURI |-> <<>>]

\* a nil *RefInfo
NilRefInfo == [nil |-> TRUE, Name |-> <<>>, URI |-> <<>>]

\* a branch alone is enough for the ref sub-record
ReferencesRefOnBranch(a) ==
    LET c == a.Commit
        commit == IF c.Rev # <<>> \/ c.Link # <<>>
                  THEN [nil |-> FALSE, ID |-> c.Rev, RepositoryURI |-> c.Link]
                  ELSE NilCommitInfo
        ref    == IF c.Branch # <<>>
                  THEN [nil |-> FALSE, Name |-> c.Branch,
                        URI |-> c.Link \o <<"/", "r", "e", "f", "s", "/">>
                                       \o c.Branch]
                  ELSE NilRefInfo
    IN  IF c.Branch # <<>> \/ c.Link # <<>> \/ c.Rev # <<>>
        THEN IF ~commit.nil \/ ~ref.nil
             THEN <<[Commit |-> commit, Ref |-> ref]>>
             ELSE <<>>
        ELSE <<>>

\* Exec's local references
References(a) ==
    LET c == a.Commit
        commit == IF c.Rev # <<>> \/ c.Link # <<>>
                  THEN [nil |-> FALSE, ID |-> c.Rev, RepositoryURI |-> c.Link]
                  ELSE NilCommitInfo
        ref    == IF c.Branch # <<>> /\ c.Link # <<>>
                  THEN [nil |-> FALSE, Name |-> c.Branch,
                        URI |-> c.Link \o <<"/", "r", "e", "f", "s", "/">>
                                       \o c.Branch]
                  ELSE NilRefInfo
    IN  IF c.Branch # <<>> \/ c.Link # <<>> \/ c.Rev # <<>>
        THEN IF ~commit.nil \/ ~ref.nil
             THEN <<[Commit |-> commit, Ref |-> ref]>>
             ELSE <<>>
        ELSE <<>>

\* DeploymentPayload as Exec builds it
DeploymentPayload(a, iss) ==
    [kind        |-> "deployments",
     issueKeys   |-> iss,
     description |-> commitMessage(a),
     state       |-> toState(a),
     environment |-> [ID          |-> toEnvironmentId(a),
                      Displayname |-> toEnvironment(a),
                      Type        |-> toEnvironmentType(a)],
     references  |-> <<>>]

\* BuildPayload as Exec builds it
BuildPayload(a, iss) ==
    [kind        |-> "builds",
     issueKeys   |-> iss,
     description |-> commitMessage(a),
     state       |-> toState(a),
     environment |-> NoEnvironment,
     references  |-> References(a)]

\* the keys of a Reference in JSON: a nil pointer is omitted (omitempty)
MarshalReference(r) ==
    (IF r.Commit.nil THEN {} ELSE {"commit"}) \cup
    (IF r.Ref.nil THEN {} ELSE {"ref"})

\* json.Marshal of a Build, as the keys it writes: "references" is omitted
\* for a list without entries (omitempty)
MarshalBuild(b) ==
    [keys |-> {"buildNumber", "description", "displayName", "issueKeys",
               "label", "lastUpdated", "pipelineId", "schemaVersion", "state",
               "testInfo", "updateSequenceNumber", "url"}
              \cup (IF Len(b.references) = 0 THEN {} ELSE {"references"}),
     references |-> [i \in DOMAIN b.references |->
                        MarshalReference(b.references[i])]]

\* GET https://{tenant}.atlassian.net/_edge/tenant_info
TenantInfoRequest(tenant) ==
    [kind |-> "tenant_info", method |-> "GET", host |-> "{site}.atlassian.net",
     site |-> tenant, path |-> "/_edge/tenant_info", cloudId |-> "",
     bearer |-> "", payload |-> NoPayload]

\* POST https://api.atlassian.com/oauth/token
OauthTokenRequest(a) ==
    [kind |-> "oauth_token", method |-> "POST", host |-> "api.atlassian.com",
     site |-> <<>>, path |-> "/oauth/token", cloudId |-> "",
     bearer |-> "", payload |-> NoPayload]

\* GET {connectURL}/token, Authorization: Bearer {connectToken}
ConnectTokenRequest(connectToken, connectURL) ==
    [kind |-> "connect_token", method |-> "GET", host |-> connectURL,
     site |-> <<>>, path |-> "/token", cloudId |-> "",
     bearer |-> connectToken, payload |-> NoPayload]

\* POST https://api.atlassian.com/jira/deployments/0.1/cloud/{cloudID}/bulk
CloudDeploymentRequest(payload, cid, oauthToken) ==
    [kind |-> "bulk", method |-> "POST", host |-> "api.atlassian.com",
     site |-> <<>>, path |-> "/jira/deployments/0.1/cloud/{cloudId}/bulk",
     cloudId |-> cid, bearer |-> oauthToken, payload |-> payload]

\* POST https://{cloudID}.atlassian.net/rest/deployments/0.1/bulk
ConnectDeploymentRequest(payload, instanceName, jwtToken) ==
    [kind |-> "bulk", method |-> "POST", host |-> "{site}.atlassian.net",
     site |-> instanceName, path |-> "/rest/deployments/0.1/bulk",
     cloudId |-> "", bearer |-> jwtToken, payload |-> payload]

\* POST https://{cloudID}.atlassian.net/rest/builds/0.1/bulk
ConnectBuildRequest(payload, instanceName, jwtToken) ==
    [kind |-> "bulk", method |-> "POST", host |-> "{site}.atlassian.net",
     site |-> instanceName, path |-> "/rest/builds/0.1/bulk",
     cloudId |-> "", bearer |-> jwtToken, payload |-> payload]

\* Args.writeCard: the result of json.Marshal and of the write are dropped,
\* nil is returned whether the sink took the card (ok) or not
ArgsWriteCard(ok) == "nil"

\* the links of the card: https://{args.Instance}.atlassian.net/browse/{issue_key}
TicketLinks(a, iss) ==
    [i \in 1..Len(iss) |-> [site |-> a.Instance, key |-> iss[i]]]

\* the Card handed to writeCard
CardData(a, iss) ==
    [Instance |-> ExtractInstanceName(a.Instance),
     Project  |-> a.Project,
     URL      |-> TicketLinks(a, iss)]

----------------------------------------------------------------------------
(* Decisions of Exec *)

\* the explicit list is extended by what the text holds instead of replacing it
ResolveIssuesAppending(a) ==
    [issues    |-> a.IssueKeys \o extractIssues(a),
     extracted |-> TRUE]

\* the explicit list wins; extractIssues is called only when it is empty
ResolveIssues(a) ==
    IF Len(a.IssueKeys) > 0
    THEN [issues |-> a.IssueKeys, extracted |-> FALSE]
    ELSE [issues |-> extractIssues(a), extracted |-> TRUE]

\* the emptiness test never fires
NoIssuesNeverTrue(iss) == Len(iss) < 0

\* len(issues) == 0 after extraction
NoIssues(iss) == Len(iss) = 0

\* the validation looks at the connect hostname where it should look at the key
MissingCredentialsChecksHostname(a) ==
    (a.ClientID = "" /\ a.ClientSecret = "") /\ (a.ConnectHostname = "")

\* validation of arguments
MissingCredentials(a) ==
    (a.ClientID = "" /\ a.ClientSecret = "") /\ (a.ConnnectKey = "")

\* the OAuth branch is taken with half a credential pair
UseOauthEither(a) == a.ClientID # "" \/ a.ClientSecret # ""

\* the branch taken after validation
UseOauth(a) == a.ClientID # "" /\ a.ClientSecret # ""

\* the tenant is looked up only when no cloud id was supplied
NeedsTenantLookupWithoutCloudId(instanceName, cid) ==
    instanceName # <<>> /\ cid = ""

\* getCloudID makes the tenant lookup whenever the instance name is not empty
NeedsTenantLookup(instanceName, cid) == instanceName # <<>>

\* the connect flow reports a deployment whatever the environment name
ConnectSendsDeploymentAlways(a) == TRUE

\* connect flow: which of the two payloads is sent
ConnectSendsDeployment(a) == a.EnvironmentName # <<>>

\* the hostname the connect token is requested from
ConnectHostnameOf(a) ==
    IF a.ConnectHostname = "" THEN DefaultConnectHostname ELSE a.ConnectHostname

\* res.StatusCode > 299
Rejected(status) == status > 299

----------------------------------------------------------------------------
(* Inputs of a run *)

KeyA1 == <<"A", "-", "1">>
KeyA2 == <<"A", "-", "2">>
KeyA3 == <<"A", "-", "3">>
KeyB7 == <<"B", "-", "7">>

\* PLUGIN_INSTANCE: absent, a bare name, a dotted hostname, a full URL
Instances ==
    {<<>>,
     <<"a", "c">>,
     <<"a", "c", ".", "n">>,
     <<"s", ":", "/", "/", "a", "c", ".", "n">>}

\* PLUGIN_ISSUEKEYS: absent, one key, two keys in a given order
ExplicitKeys == {<<>>, <<KeyB7>>, <<KeyA3, KeyB7>>}

\* commit messages of a run: no key, one key, two keys
ExecMessages ==
    {<<"f", "i", "x">>,
     <<"f", " ">> \o KeyA1,
     KeyA2 \o <<",">> \o KeyA1}

ExecArgs ==
    [ClientID        : {"", "id"},
     ClientSecret    : {"", "secret"},
     ConnnectKey     : {"", "key"},
     ConnectHostname : {"", "https://connect.local"},
     CloudID         : {"", "cloud-1"},
     Instance        : Instances,
     EnvironmentName : {<<>>, <<"P", "r", "o", "d">>},
     EnvironmentId   : {<<>>},
     EnvironmentType : {<<>>},
     Deploy          : [Target : {<<>>}],
     State           : {<<>>},
     Build           : [Status : {<<"s", "u", "c", "c", "e", "s", "s">>}],
     IssueKeys       : ExplicitKeys,
     Project         : {<<"A">>},
     Commit          : [Message : ExecMessages,
                        Source  : {<<>>},
                        Target  : {<<>>},
                        Branch  : {<<>>, <<"f", "/">> \o KeyA3},
                        Rev     : {<<"c", "0">>},
                        Link    : {<<>>}],
     PullRequest     : [Title : {<<>>}]]

\* what Jira holds as the status of the issue; "absent" is a missing field
JiraStatuses == {"In Progress", "Closed", "CLOSED", "absent"}

StatusCodes == {200, 299, 300, 404}

NetError == [neterr |-> TRUE, status |-> 0, body |-> ""]

\* answers of the tenant_info endpoint
TenantResponses ==
    {NetError} \cup
    [neterr : {FALSE}, status : StatusCodes,
     body : {"cloudId", "noCloudId", "notJSON"}]

\* answers of the OAuth token endpoint
OauthTokenResponses ==
    {NetError} \cup
    [neterr : {FALSE}, status : StatusCodes,
     body : {"access_token", "noAccessToken", "notJSON"}]

\* answers of the connect token endpoint: the body is taken as it is
ConnectTokenResponses ==
    {NetError} \cup
    [neterr : {FALSE}, status : StatusCodes, body : {"jwt", "error page"}]

\* answers of the bulk endpoints
BulkResponses ==
    {NetError} \cup [neterr : {FALSE}, status : StatusCodes, body : {""}]

----------------------------------------------------------------------------
(* Exec, one action per stretch of code between two blocking calls *)

Init ==
    /\ args \in ExecArgs
    /\ jira \in [status : JiraStatuses]
    /\ pc = "start"
    /\ issues = <<>>
    /\ cloudID = ""
    /\ calls = <<>>
    /\ responses = <<>>
    /\ err = "nil"
    /\ cards = <<>>
    /\ written = <<>>
    /\ ctx = "live"
    /\ extracted = FALSE
    /\ out = <<>>

\* return e
Return(e) ==
    /\ pc' = "done"
    /\ err' = e

\* getOauthToken up to http.DefaultClient.Do
CallOauthToken(cid) ==
    /\ cloudID' = cid
    /\ calls' = Append(calls, OauthTokenRequest(args))
    /\ pc' = "getOauthToken"
    /\ err' = err

\* Exec from its entry to the first blocking call or an early return
ExecStart ==
    /\ pc = "start"
    /\ LET instanceName == ExtractInstanceName(args.Instance)
           resolved     == ResolveIssues(args)
           iss          == resolved.issues
       IN  /\ extracted' = resolved.extracted
           /\ issues' = iss
           /\ IF NoIssues(iss)
              THEN Return(ErrIssueNotFound) /\ UNCHANGED <<calls, cloudID>>
              ELSE IF MissingCredentials(args)
              THEN Return(ErrMissingCredentials) /\ UNCHANGED <<calls, cloudID>>
              ELSE IF UseOauth(args)
              THEN IF NeedsTenantLookup(instanceName, args.CloudID)
                   THEN /\ calls' = Append(calls, TenantInfoRequest(instanceName))
                        /\ pc' = "lookupTenant"
                        /\ UNCHANGED <<err, cloudID>>
                   ELSE IF args.CloudID = ""
                   THEN Return(ErrCloudIdEmpty) /\ UNCHANGED <<calls, cloudID>>
                   ELSE CallOauthToken(args.CloudID)
              ELSE /\ calls' = Append(calls,
                            ConnectTokenRequest(args.ConnnectKey,
                                                ConnectHostnameOf(args)))
                   /\ pc' = "getConnectToken"
                   /\ UNCHANGED <<err, cloudID>>
    /\ UNCHANGED <<args, responses, cards, jira, out, written, ctx>>

\* lookupTenant returns; getCloudID and Exec go on to the token request
LookupTenantReturn ==
    /\ pc = "lookupTenant"
    /\ \E res \in TenantResponses :
         /\ responses' = Append(responses, res)
         /\ IF res.neterr \/ Rejected(res.status) \/ res.body = "notJSON"
            THEN Return(ErrTenantLookup) /\ UNCHANGED <<calls, cloudID>>
            ELSE CallOauthToken(IF res.body = "cloudId" THEN "tenant-cloud" ELSE "")
    /\ UNCHANGED <<args, issues, cards, extracted, jira, out, written, ctx>>

\* getOauthToken returns; Exec goes on to createDeployment
OauthTokenReturn ==
    /\ pc = "getOauthToken"
    /\ \E res \in OauthTokenResponses :
         /\ responses' = Append(responses, res)
         /\ IF res.neterr
            THEN Return(ErrTransport) /\ UNCHANGED calls
            ELSE IF Rejected(res.status)
            THEN Return(ErrStatusCode) /\ UNCHANGED calls
            ELSE IF res.body = "notJSON"
            THEN Return(ErrJSON) /\ UNCHANGED calls
            ELSE IF res.body = "noAccessToken"
            THEN Return(PanicTypeAssertion) /\ UNCHANGED calls
            ELSE /\ calls' = Append(calls,
                        CloudDeploymentRequest(DeploymentPayload(args, issues),
                                               cloudID, "oauth-token"))
                 /\ pc' = "createDeployment"
                 /\ err' = err
    /\ UNCHANGED <<args, issues, cloudID, cards, extracted, jira, out, written, ctx>>

\* getConnectToken returns; Exec goes on to one of the two connect reports
ConnectTokenReturn ==
    /\ pc = "getConnectToken"
    /\ \E res \in ConnectTokenResponses :
         LET instanceName == ExtractInstanceName(args.Instance)
         IN  /\ responses' = Append(responses, res)
             /\ IF res.neterr
                THEN Return(ErrTransport) /\ UNCHANGED calls
                ELSE IF ConnectSendsDeployment(args)
                THEN /\ calls' = Append(calls,
                            ConnectDeploymentRequest(DeploymentPayload(args, issues),
                                                     instanceName, res.body))
                     /\ pc' = "createConnectDeployment"
                     /\ err' = err
                ELSE /\ calls' = Append(calls,
                            ConnectBuildRequest(BuildPayload(args, issues),
                                                instanceName, res.body))
                     /\ pc' = "createConnectBuild"
                     /\ err' = err
    /\ UNCHANGED <<args, issues, cloudID, cards, extracted, jira, out, written, ctx>>

\* a rejected bulk POST is sent once more instead of ending the run
BulkReturnRetrying ==
    /\ pc \in {"createDeployment", "createConnectDeployment", "createConnectBuild"}
    /\ \E res \in BulkResponses :
         /\ responses' = Append(responses, res)
         /\ IF res.neterr
            THEN Return(ErrTransport) /\ UNCHANGED <<cards, written, calls>>
            ELSE IF Rejected(res.status)
            THEN IF Len(calls) < 4
                 THEN /\ calls' = Append(calls, calls[Len(calls)])
                      /\ UNCHANGED <<pc, err, cards, written>>
                 ELSE Return(ErrStatusCode) /\ UNCHANGED <<cards, written, calls>>
            ELSE \E ok \in BOOLEAN :
                   /\ cards' = Append(cards, CardData(args, issues))
                   /\ written' = Append(written, ok)
                   /\ Return(ArgsWriteCard(ok))
                   /\ UNCHANGED calls
    /\ UNCHANGED <<args, issues, cloudID, extracted, jira, out, ctx>>

\* the card is written whatever the bulk endpoint answered
BulkReturnCardAlways ==
    /\ pc \in {"createDeployment", "createConnectDeployment", "createConnectBuild"}
    /\ \E res \in BulkResponses, ok \in BOOLEAN :
         /\ responses' = Append(responses, res)
         /\ cards' = Append(cards, CardData(args, issues))
         /\ written' = Append(written, ok)
         /\ IF res.neterr
            THEN Return(ErrTransport)
            ELSE IF Rejected(res.status)
            THEN Return(ErrStatusCode)
            ELSE Return(ArgsWriteCard(ok))
    /\ UNCHANGED <<args, issues, cloudID, calls, extracted, jira, out, ctx>>

\* the bulk POST returns; on success Exec hands the card to args.writeCard,
\* whose sink takes it (ok) or not, and returns what args.writeCard returned
BulkReturn ==
    /\ pc \in {"createDeployment", "createConnectDeployment", "createConnectBuild"}
    /\ \E res \in BulkResponses :
         /\ responses' = Append(responses, res)
         /\ IF res.neterr
            THEN Return(ErrTransport) /\ UNCHANGED <<cards, written>>
            ELSE IF Rejected(res.status)
            THEN Return(ErrStatusCode) /\ UNCHANGED <<cards, written>>
            ELSE \E ok \in BOOLEAN :
                   /\ cards' = Append(cards, CardData(args, issues))
                   /\ written' = Append(written, ok)
                   /\ Return(ArgsWriteCard(ok))
    /\ UNCHANGED <<args, issues, cloudID, calls, extracted, jira, out, ctx>>

\* the context of Exec is cancelled or times out while a request is in
\* flight; no request of Exec is built with the context
Cancel ==
    /\ pc \in {"lookupTenant", "getOauthToken", "getConnectToken",
               "createDeployment", "createConnectDeployment",
               "createConnectBuild"}
    /\ ctx = "live"
    /\ ctx' = "cancelled"
    /\ UNCHANGED <<args, pc, issues, cloudID, calls, responses, err, cards,
                   written, extracted, jira, out>>

Next ==
    \/ ExecStart
    \/ LookupTenantReturn
    \/ OauthTokenReturn
    \/ ConnectTokenReturn
    \/ BulkReturn
    \/ Cancel

Spec == Init /\ [][Next]_vars

----------------------------------------------------------------------------
(* The extraction helpers applied on their own to generated text *)

\* pieces a generated commit message is put together from
Chunks ==
    {<<"A">>, <<"B">>, <<"-">>, <<"1">>, <<"2">>, <<"A", "-">>, KeyA1}

RECURSIVE ChunkSeqs(_)
\* the sequences of at most n chunks
ChunkSeqs(n) ==
    IF n = 0 THEN {<<>>}
    ELSE LET shorter == ChunkSeqs(n - 1)
         IN  shorter \cup {Append(cs, c) : cs \in shorter, c \in Chunks}

Messages == {Flatten(cs) : cs \in ChunkSeqs(MaxChunks)}

UtilArgs ==
    [ClientID        : {""},
     ClientSecret    : {""},
     ConnnectKey     : {""},
     ConnectHostname : {""},
     CloudID         : {""},
     Instance        : {<<>>},
     EnvironmentName : {<<>>},
     IssueKeys       : {<<>>},
     Project         : {<<"A">>, <<"A", "B">>},
     Commit          : [Message : Messages,
                        Source  : {<<>>, <<"A", "B", "-", "2", "1">>},
                        Target  : {<<>>, <<"A", "-", "A", "-", "9">>},
                        Branch  : {<<>>, <<"f", "/">> \o KeyA3}],
     PullRequest     : [Title : {<<>>, <<"[">> \o KeyA2 \o <<"]">>}]]

InitUtil ==
    /\ args \in UtilArgs
    /\ jira = [status |-> "absent"]
    /\ pc = "input"
    /\ issues = <<>>
    /\ cloudID = ""
    /\ calls = <<>>
    /\ responses = <<>>
    /\ err = "nil"
    /\ cards = <<>>
    /\ written = <<>>
    /\ ctx = "live"
    /\ extracted = FALSE
    /\ out = <<>>

CallExtractIssue ==
    /\ pc = "input"
    /\ pc' = "extractIssue"
    /\ out' = extractIssue(args)
    /\ UNCHANGED <<args, issues, cloudID, calls, responses, err, cards, written,
                   ctx, extracted, jira>>

CallExtractIssues ==
    /\ pc = "input"
    /\ pc' = "extractIssues"
    /\ out' = extractIssues(args)
    /\ UNCHANGED <<args, issues, cloudID, calls, responses, err, cards, written,
                   ctx, extracted, jira>>

NextUtil ==
    \/ CallExtractIssue
    \/ CallExtractIssues

SpecUtil == InitUtil /\ [][NextUtil]_vars

----------------------------------------------------------------------------
(* The normalisers applied on their own to generated settings *)

\* the words the switch of toStateEnum names
StateWords ==
    {<<"p", "e", "n", "d", "i", "n", "g">>,
     <<"w", "a", "i", "t", "i", "n", "g">>,
     <<"r", "u", "n", "n", "i", "n", "g">>,
     <<"i", "n", "_", "p", "r", "o", "g", "r", "e", "s", "s">>,
     <<"c", "a", "n", "c", "e", "l", "l", "e", "d">>,
     <<"k", "i", "l", "l", "e", "d">>,
     <<"s", "t", "o", "p", "p", "e", "d">>,
     <<"t", "e", "r", "m", "i", "n", "a", "t", "e", "d">>,
     <<"f", "a", "i", "l", "e", "d">>,
     <<"f", "a", "i", "l", "u", "r", "e">>,
     <<"e", "r", "r", "o", "r">>,
     <<"e", "r", "r", "o", "r", "e", "d">>,
     <<"r", "o", "l", "l", "b", "a", "c", "k">>,
     <<"r", "o", "l", "l", "e", "d", "_", "b", "a", "c", "k">>,
     <<"s", "u", "c", "c", "e", "s", "s">>,
     <<"s", "u", "c", "c", "e", "s", "s", "f", "u", "l">>}

\* the words the switch of toEnvironmentEnum names
EnvironmentWords ==
    {<<"p", "r", "o", "d">>,
     <<"p", "r", "o", "d", "u", "c", "t", "i", "o", "n">>,
     <<"s", "t", "a", "g", "e">>,
     <<"s", "t", "a", "g", "i", "n", "g">>,
     <<"d", "e", "v">>,
     <<"d", "e", "v", "e", "l", "o", "p", "m", "e", "n", "t">>,
     <<"t", "e", "s", "t", "i", "n", "g">>,
     <<"t", "e", "s", "t">>}

\* the letter c in upper case
ToUpperChar(c) ==
    IF \E i \in 1..26 : LowerLetters[i] = c
    THEN UpperLetters[CHOOSE i \in 1..26 : LowerLetters[i] = c]
    ELSE c

\* a lower-case word as a user may write it: as it is, in capitals, with a
\* capital first letter, with every other letter a capital
Casings(w) ==
    {w,
     [i \in 1..Len(w) |-> ToUpperChar(w[i])],
     [i \in 1..Len(w) |-> IF i = 1 THEN ToUpperChar(w[i]) ELSE w[i]],
     [i \in 1..Len(w) |-> IF i % 2 = 0 THEN ToUpperChar(w[i]) ELSE w[i]]}

\* PLUGIN_STATE values: the words of the switch, words it does not name
StateInputs ==
    UNION {Casings(w) : w \in StateWords} \cup
    {<<>>,
     <<"d", "o", "n", "e">>,
     <<"p", "e", "n", "d", "i", "n">>,
     <<"s", "u", "c", "c", "e", "s", "s", "f", "u", "l", "l">>,
     <<"u", "n", "k", "n", "o", "w", "n">>,
     <<"U", "N", "K", "N", "O", "W", "N">>,
     <<"i", "n", " ", "p", "r", "o", "g", "r", "e", "s", "s">>,
     <<"X", "F", "A", "I", "L", "E", "D">>}

\* PLUGIN_ENVIRONMENT_NAME values
EnvironmentInputs ==
    UNION {Casings(w) : w \in EnvironmentWords} \cup
    {<<>>,
     <<"q", "a">>,
     <<"p", "r", "o", "d", "u">>,
     <<"u", "n", "m", "a", "p", "p", "e", "d">>,
     <<"l", "i", "v", "e">>,
     <<"p", "r", "o", "d", "1">>}

\* settings that vary the state, settings that vary the environment
EnumArgs ==
    [State           : StateInputs,
     Build           : [Status : {<<>>, <<"f", "a", "i", "l", "u", "r", "e">>, <<"K", "I", "L", "L", "E", "D">>, <<"s", "k", "i", "p", "p", "e", "d">>}],
     EnvironmentName : {<<>>},
     Deploy          : [Target : {<<>>}],
     EnvironmentId   : {<<>>},
     EnvironmentType : {<<>>}]
    \cup
    [State           : {<<>>},
     Build           : [Status : {<<>>}],
     EnvironmentName : EnvironmentInputs,
     Deploy          : [Target : {<<>>, <<"S", "T", "A", "G", "E">>, <<"q", "a">>, <<"d", "e", "v">>}],
     EnvironmentId   : {<<>>, <<"P", "r", "o", "d">>, <<"e", "n", "v", "-", "1">>},
     EnvironmentType : {<<>>, <<"P", "r", "o", "d">>, <<"t", "e", "s", "t", "i", "n", "g">>}]

InitEnum ==
    /\ args \in EnumArgs
    /\ jira = [status |-> "absent"]
    /\ pc = "input"
    /\ issues = <<>>
    /\ cloudID = ""
    /\ calls = <<>>
    /\ responses = <<>>
    /\ err = "nil"
    /\ cards = <<>>
    /\ written = <<>>
    /\ ctx = "live"
    /\ extracted = FALSE
    /\ out = <<>>

CallToStateEnum ==
    /\ pc = "input"
    /\ pc' = "toStateEnum"
    /\ out' = toStateEnum(args.State)
    /\ UNCHANGED <<args, issues, cloudID, calls, responses, err, cards, written,
                   ctx, extracted, jira>>

CallToState ==
    /\ pc = "input"
    /\ pc' = "toState"
    /\ out' = toState(args)
    /\ UNCHANGED <<args, issues, cloudID, calls, responses, err, cards, written,
                   ctx, extracted, jira>>

CallToEnvironment ==
    /\ pc = "input"
    /\ pc' = "toEnvironment"
    /\ out' = toEnvironment(args)
    /\ UNCHANGED <<args, issues, cloudID, calls, responses, err, cards, written,
                   ctx, extracted, jira>>

CallToEnvironmentId ==
    /\ pc = "input"
    /\ pc' = "toEnvironmentId"
    /\ out' = toEnvironmentId(args)
    /\ UNCHANGED <<args, issues, cloudID, calls, responses, err, cards, written,
                   ctx, extracted, jira>>

CallToEnvironmentType ==
    /\ pc = "input"
    /\ pc' = "toEnvironmentType"
    /\ out' = toEnvironmentType(args)
    /\ UNCHANGED <<args, issues, cloudID, calls, responses, err, cards, written,
                   ctx, extracted, jira>>

NextEnum ==
    \/ CallToStateEnum
    \/ CallToState
    \/ CallToEnvironment
    \/ CallToEnvironmentId
    \/ CallToEnvironmentType

SpecEnum == InitEnum /\ [][NextEnum]_vars

----------------------------------------------------------------------------
(* ExtractInstanceName applied on its own to generated instance settings *)

\* pieces an instance setting is put together from
InstanceChunks ==
    {<<"s", ":", "/", "/">>,
     <<":", "/", "/">>,
     <<"a">>,
     <<".">>,
     <<"b", ".", "c">>,
     <<":", "8">>,
     <<":">>,
     <<"/">>,
     <<"8">>}

RECURSIVE InstanceChunkSeqs(_)
InstanceChunkSeqs(n) ==
    IF n = 0 THEN {<<>>}
    ELSE LET shorter == InstanceChunkSeqs(n - 1)
         IN  shorter \cup {Append(cs, c) : cs \in shorter, c \in InstanceChunks}

\* PLUGIN_INSTANCE values
InstanceInputs == {Flatten(cs) : cs \in InstanceChunkSeqs(MaxInstanceChunks)}

InitInstance ==
    /\ args \in [Instance : InstanceInputs]
    /\ jira = [status |-> "absent"]
    /\ pc = "input"
    /\ issues = <<>>
    /\ cloudID = ""
    /\ calls = <<>>
    /\ responses = <<>>
    /\ err = "nil"
    /\ cards = <<>>
    /\ written = <<>>
    /\ ctx = "live"
    /\ extracted = FALSE
    /\ out = <<>>

\* out is the sequence of the results of the successive applications
CallExtractInstanceName ==
    /\ pc = "input"
    /\ pc' = "ExtractInstanceName"
    /\ out' = <<ExtractInstanceName(args.Instance)>>
    /\ UNCHANGED <<args, issues, cloudID, calls, responses, err, cards, written,
                   ctx, extracted, jira>>

\* ExtractInstanceName applied to its own result
CallExtractInstanceNameAgain ==
    /\ pc = "ExtractInstanceName"
    /\ pc' = "ExtractInstanceNameAgain"
    /\ out' = Append(out, ExtractInstanceName(out[Len(out)]))
    /\ UNCHANGED <<args, issues, cloudID, calls, responses, err, cards, written,
                   ctx, extracted, jira>>

NextInstance ==
    \/ CallExtractInstanceName
    \/ CallExtractInstanceNameAgain

SpecInstance == InitInstance /\ [][NextInstance]_vars

----------------------------------------------------------------------------
(* The payloads built from long commit messages *)

\* the UTF-8 encoding of the letter e with acute accent, U+00E9
TwoByteCharacter == <<"C3", "A9">>

DigitCharacters == <<"0", "1", "2", "3", "4", "5", "6", "7", "8", "9">>

\* a commit message of w two-byte characters followed by n digits
LongMessage(w, n) ==
    [i \in 1..(2 * w + n) |->
        IF i <= 2 * w THEN TwoByteCharacter[2 - (i % 2)]
        ELSE DigitCharacters[((i - 2 * w) % 10) + 1]]

\* numbers of two-byte characters a generated message starts with
TwoByteCounts == {0, 1, 128}

LongMessages ==
    {LongMessage(w, n) : w \in TwoByteCounts, n \in 0..MaxMessageTail}

DescriptionArgs ==
    [Commit          : [Message : LongMessages,
                        Branch  : {<<>>},
                        Rev     : {<<>>},
                        Link    : {<<>>}],
     State           : {<<>>},
     Build           : [Status : {<<>>}],
     EnvironmentName : {<<>>},
     Deploy          : [Target : {<<>>}],
     EnvironmentId   : {<<>>},
     EnvironmentType : {<<>>}]

InitDescription ==
    /\ args \in DescriptionArgs
    /\ jira = [status |-> "absent"]
    /\ pc = "input"
    /\ issues = <<>>
    /\ cloudID = ""
    /\ calls = <<>>
    /\ responses = <<>>
    /\ err = "nil"
    /\ cards = <<>>
    /\ written = <<>>
    /\ ctx = "live"
    /\ extracted = FALSE
    /\ out = <<>>

\* Exec builds the two payloads; out is the pair of their descriptions
BuildPayloads ==
    /\ pc = "input"
    /\ pc' = "payloads"
    /\ out' = <<DeploymentPayload(args, <<KeyA1>>).description,
                BuildPayload(args, <<KeyA1>>).description>>
    /\ UNCHANGED <<args, issues, cloudID, calls, responses, err, cards, written,
                   ctx, extracted, jira>>

NextDescription == BuildPayloads

SpecDescription == InitDescription /\ [][NextDescription]_vars

----------------------------------------------------------------------------
(* The build payload built from generated commit references *)

\* DRONE_COMMIT_BRANCH values
Branches == {<<>>, <<"m">>, <<"f", "/", "A", "-", "3">>, <<"v", "1">>}

\* DRONE_COMMIT_LINK values
Links == {<<>>, <<"h", "/", "r">>, <<"h", "/", "r", "/", "c", "/", "1">>, <<"/">>}

\* DRONE_COMMIT_SHA values
Revs == {<<>>, <<"c", "0">>, <<"1">>, <<"m", "a", "i", "n">>}

ReferenceArgs ==
    [Commit          : [Message : {<<"f", "i", "x", " ", "A", "-", "1">>},
                        Branch  : Branches,
                        Rev     : Revs,
                        Link    : Links],
     State           : {<<>>},
     Build           : [Status : {<<>>}],
     EnvironmentName : {<<>>},
     Deploy          : [Target : {<<>>}],
     EnvironmentId   : {<<>>},
     EnvironmentType : {<<>>}]

InitReferences ==
    /\ args \in ReferenceArgs
    /\ jira = [status |-> "absent"]
    /\ pc = "input"
    /\ issues = <<>>
    /\ cloudID = ""
    /\ calls = <<>>
    /\ responses = <<>>
    /\ err = "nil"
    /\ cards = <<>>
    /\ written = <<>>
    /\ ctx = "live"
    /\ extracted = FALSE
    /\ out = <<>>

\* Exec builds buildPayload
BuildBuildPayload ==
    /\ pc = "input"
    /\ pc' = "buildPayload"
    /\ out' = BuildPayload(args, <<KeyA1>>)
    /\ UNCHANGED <<args, issues, cloudID, calls, responses, err, cards, written,
                   ctx, extracted, jira>>

\* createConnectBuild serialises the payload
MarshalBuildPayload ==
    /\ pc = "buildPayload"
    /\ pc' = "marshalled"
    /\ out' = [build |-> out, json |-> MarshalBuild(out)]
    /\ UNCHANGED <<args, issues, cloudID, calls, responses, err, cards, written,
                   ctx, extracted, jira>>

NextReferences ==
    \/ BuildBuildPayload
    \/ MarshalBuildPayload

SpecReferences == InitReferences /\ [][NextReferences]_vars

----------------------------------------------------------------------------
(* Vocabulary of the properties *)

HasOauthPair == args.ClientID # "" /\ args.ClientSecret # ""
HasConnectKey == args.ConnnectKey # ""
NoCredentials ==
    args.ClientID = "" /\ args.ClientSecret = "" /\ args.ConnnectKey = ""

CallsOfKind(k) == {i \in DOMAIN calls : calls[i].kind = k}
BulkCalls == CallsOfKind("bulk")
TokenCalls == CallsOfKind("oauth_token") \cup CallsOfKind("connect_token")

Done == pc = "done"
Succeeded == pc = "done" /\ err = "nil"

\* P-<digits> stands in text s at position i
OccursAt(project, s, i) ==
    LET d == i + Len(project) + 1
    IN  /\ i >= 1
        /\ d <= Len(s)
        /\ SubSeq(s, i, d - 2) = project
        /\ s[d - 1] = "-"
        /\ s[d] \in Digits

\* the occurrence at i, with all its digits
OccurrenceAt(project, s, i) ==
    LET d    == i + Len(project) + 1
        last == CHOOSE e \in d..Len(s) :
                   /\ \A k \in d..e : s[k] \in Digits
                   /\ e = Len(s) \/ s[e + 1] \notin Digits
    IN  SubSeq(s, i, last)

Occurrences(project, s) == {i \in 1..Len(s) : OccursAt(project, s, i)}

\* no text source of the run holds an issue key of the project
NoKeyInText ==
    \A k \in 1..Len(TextSources(args)) :
        Occurrences(args.Project, TextSources(args)[k]) = {}

----------------------------------------------------------------------------
(* Properties of a run of Exec (specification Spec) *)

\* C1: with client id, client secret and connect key all empty (and an
\* issue key resolved) the run ends with the missing-credentials error and
\* has issued no HTTP request of any kind.
C1_MissingCredentialsNoCall ==
    NoCredentials =>
        /\ calls = <<>>
        /\ pc # "start" => Done
        /\ (Done /\ issues # <<>>) => err = ErrMissingCredentials

C1_Witness ==
    /\ Done
    /\ NoCredentials
    /\ issues # <<>>
    /\ args.ConnectHostname # ""
    /\ err = ErrMissingCredentials

\* C2 (as claimed): a network call is made only if exactly one of the OAuth
\* pair and the connect key is non-empty; none, both, or half a pair
\* without a connect key fail before any network call.
C2_ExactlyOneCredentialOrNoCall ==
    calls # <<>> => (HasOauthPair /\ ~HasConnectKey) \/ (~HasOauthPair /\ HasConnectKey)

\* C3: with no explicit issue-key list and no key in any text source the
\* run ends with the issue-not-found error before any network call,
\* whatever the credentials.
C3_IssueNotFoundNoCall ==
    (pc # "start" /\ args.IssueKeys = <<>> /\ NoKeyInText) =>
        /\ Done
        /\ err = ErrIssueNotFound
        /\ calls = <<>>

C3_Witness ==
    /\ Done
    /\ args.IssueKeys = <<>>
    /\ NoKeyInText
    /\ HasOauthPair
    /\ HasConnectKey
    /\ err = ErrIssueNotFound

\* the status Jira holds vetoes the report: CLOSED in any case, or no status
JiraVetoes == jira.status \in {"Closed", "CLOSED", "absent"}

\* C4 (as claimed): in the OAuth branch a bulk POST is issued only after an
\* issue-status lookup that permitted it; with a closed issue or an absent
\* status no bulk POST is issued.
C4_ReportOnlyAfterStatusLookup ==
    \A i \in BulkCalls :
        HasOauthPair =>
            /\ \E j \in 1..(i - 1) : calls[j].kind = "issue_status"
            /\ ~JiraVetoes

\* C5: after validation the token endpoint called is the OAuth one iff client
\* id and client secret are both non-empty and the connect one otherwise;
\* no run calls both, the chosen one is called at most once (in the OAuth
\* branch the request follows the cloud-id resolution, which can end the run).
C5_OneTokenProvider ==
    /\ \A i \in CallsOfKind("oauth_token") : HasOauthPair
    /\ \A i \in CallsOfKind("connect_token") : ~HasOauthPair
    /\ Cardinality(TokenCalls) <= 1
    /\ (Done /\ err \notin {ErrIssueNotFound, ErrMissingCredentials}) =>
          IF HasOauthPair
          THEN Cardinality(CallsOfKind("oauth_token")) =
                  (IF err \in {ErrCloudIdEmpty, ErrTenantLookup} THEN 0 ELSE 1)
          ELSE Cardinality(CallsOfKind("connect_token")) = 1

C5_Witness ==
    /\ Done
    /\ args.ClientID # ""
    /\ args.ClientSecret = ""
    /\ Cardinality(CallsOfKind("connect_token")) = 1
    /\ Cardinality(CallsOfKind("oauth_token")) = 0

\* C6: the connect flow posts the deployment payload to
\* {instance}.atlassian.net/rest/deployments/0.1/bulk iff an environment
\* name is present and otherwise the build payload to .../rest/builds/0.1/bulk;
\* the OAuth flow always posts the deployment payload to the api.atlassian.com
\* cloud/{cloudId} endpoint.
C6_PayloadAndEndpoint ==
    \A i \in BulkCalls :
        LET c == calls[i]
        IN  /\ c.method = "POST"
            /\ IF HasOauthPair
               THEN /\ c.payload.kind = "deployments"
                    /\ c.host = "api.atlassian.com"
                    /\ c.path = "/jira/deployments/0.1/cloud/{cloudId}/bulk"
                    /\ c.cloudId = cloudID
               ELSE /\ c.host = "{site}.atlassian.net"
                    /\ c.site = ExtractInstanceName(args.Instance)
                    /\ IF args.EnvironmentName # <<>>
                       THEN /\ c.payload.kind = "deployments"
                            /\ c.path = "/rest/deployments/0.1/bulk"
                       ELSE /\ c.payload.kind = "builds"
                            /\ c.path = "/rest/builds/0.1/bulk"

C6_Witness ==
    /\ Succeeded
    /\ ~HasOauthPair
    /\ args.EnvironmentName = <<>>
    /\ BulkCalls # {}
    /\ \A i \in BulkCalls : calls[i].payload.kind = "builds"

\* C7: a run that ends successfully has issued exactly one bulk POST, and no
\* run issues more than one.
C7_ExactlyOneBulkPost ==
    /\ Cardinality(BulkCalls) <= 1
    /\ Succeeded => Cardinality(BulkCalls) = 1

C7_Witness ==
    /\ Done
    /\ err = ErrStatusCode
    /\ Cardinality(BulkCalls) = 1

\* the issue keys the card's links are built from
CardKeys(card) == [k \in DOMAIN card.URL |-> card.URL[k].key]

\* C8: a non-empty explicit issue-key list is what the payload and the card
\* carry, in its given order, whatever the text sources hold; extraction
\* runs only when the list is empty.
C8_ExplicitKeysWin ==
    /\ extracted => args.IssueKeys = <<>>
    /\ args.IssueKeys # <<>> =>
          /\ \A i \in BulkCalls : calls[i].payload.issueKeys = args.IssueKeys
          /\ \A i \in DOMAIN cards : CardKeys(cards[i]) = args.IssueKeys

C8_Witness ==
    /\ Succeeded
    /\ args.IssueKeys = <<KeyA3, KeyB7>>
    /\ ~NoKeyInText
    /\ cards # <<>>
    /\ BulkCalls # {}

----------------------------------------------------------------------------
(* Properties of the extraction helpers (specification SpecUtil) *)

RECURSIVE InOrder(_, _, _)
\* the occurrences of text s that start at the positions of S, left to right
InOrder(project, s, S) ==
    IF S = {} THEN <<>>
    ELSE LET m == CHOOSE x \in S : \A y \in S : x <= y
         IN  <<OccurrenceAt(project, s, m)>> \o InOrder(project, s, S \ {m})

\* all occurrences of one text source, left to right
OccurrencesOf(project, s) == InOrder(project, s, Occurrences(project, s))

\* no two occurrences of text s overlap
NoOverlap(project, s) ==
    \A i, j \in Occurrences(project, s) :
        i < j => i + Len(OccurrenceAt(project, s, i)) <= j

\* C9: extractIssues returns every occurrence of P-<digits> of the text
\* sources (commit message, pull-request title, source, target and commit
\* branch, in this order), left to right, repeated ones included, and the
\* empty sequence when there is none.
C9_AllOccurrencesInOrder ==
    pc = "extractIssues" =>
        LET srcs == TextSources(args)
        IN  /\ \A k \in DOMAIN srcs : NoOverlap(args.Project, srcs[k])
            /\ out = Flatten([k \in DOMAIN srcs |->
                                OccurrencesOf(args.Project, srcs[k])])

C9_Witness ==
    /\ pc = "extractIssues"
    /\ Len(out) >= 3
    /\ \E i, j \in DOMAIN out : i < j /\ out[i] = out[j]
    /\ Occurrences(args.Project, args.Commit.Branch) # {}
    /\ out[Len(out)] = KeyA3

\* the first text source that holds an occurrence, 0 when none does
FirstSourceWithKey(a) ==
    LET srcs == TextSources(a)
        hits == {k \in DOMAIN srcs : Occurrences(a.Project, srcs[k]) # {}}
    IN  IF hits = {} THEN 0 ELSE CHOOSE k \in hits : \A h \in hits : k <= h

\* C10: extractIssue returns verbatim the first occurrence of P-<digits> of
\* the first text source that holds one, the sources taken in the order
\* commit message, pull-request title, source branch, target branch, commit
\* branch, and the empty string when no source holds one.
C10_FirstOccurrenceVerbatim ==
    pc = "extractIssue" =>
        LET k == FirstSourceWithKey(args)
        IN  IF k = 0 THEN out = <<>>
            ELSE LET s == TextSources(args)[k]
                     S == Occurrences(args.Project, s)
                     m == CHOOSE x \in S : \A y \in S : x <= y
                 IN  out = OccurrenceAt(args.Project, s, m)

C10_Witness ==
    /\ pc = "extractIssue"
    /\ Occurrences(args.Project, args.Commit.Message) = {}
    /\ Occurrences(args.Project, args.PullRequest.Title) # {}
    /\ Occurrences(args.Project, args.Commit.Branch) # {}
    /\ out = KeyA2

----------------------------------------------------------------------------
\* key is the project key, one "-", and one or more digits, nothing else
IsProjectKey(project, key) ==
    /\ Len(key) >= Len(project) + 2
    /\ SubSeq(key, 1, Len(project)) = project
    /\ key[Len(project) + 1] = "-"
    /\ \A k \in (Len(project) + 2)..Len(key) : key[k] \in Digits

\* the keys of the run: Exec's issues and the keys of every payload sent
ReportedKeys ==
    {issues[i] : i \in DOMAIN issues} \cup
    UNION {{calls[i].payload.issueKeys[k] :
                k \in DOMAIN calls[i].payload.issueKeys} : i \in BulkCalls}

\* C11 as stated: every issue key resolved for a run and placed in a
\* payload is <PROJECT>-<digits> with the configured project key as prefix.
\* It fails for an explicit key list, which Exec takes over unexamined.
C11_EveryReportedKeyHasProjectForm ==
    \A key \in ReportedKeys : IsProjectKey(args.Project, key)

\* C11, amended: every issue key that Exec obtains by pattern extraction
\* (no explicit key list given) and places in a payload is
\* <PROJECT>-<digits> with the configured project key as prefix.
C11_ExtractedKeysHaveProjectForm ==
    /\ extracted => \A key \in ReportedKeys : IsProjectKey(args.Project, key)
    /\ pc # "start" /\ args.IssueKeys = <<>> => extracted

\* a report with two extracted keys has been sent
C11_Witness ==
    /\ extracted
    /\ \E i \in BulkCalls : Len(calls[i].payload.issueKeys) >= 2
    /\ Succeeded

----------------------------------------------------------------------------
\* c and d are the same character up to the case of a letter
SameLetter(c, d) ==
    \/ c = d
    \/ \E i \in 1..26 : {c, d} = {UpperLetters[i], LowerLetters[i]}

\* s and t are the same word written in whatever case
EqualFold(s, t) ==
    /\ Len(s) = Len(t)
    /\ \A i \in 1..Len(s) : SameLetter(s[i], t[i])

\* the result a table of <<word, result>> gives for s, other when no word of
\* the table is s in whatever case
Lookup(table, s, other) ==
    IF \E e \in table : EqualFold(e[1], s)
    THEN (CHOOSE e \in table : EqualFold(e[1], s))[2]
    ELSE other

\* pending|waiting, running|in_progress, cancelled|killed|stopped|terminated,
\* failed|failure|error|errored, rollback|rolled_back, success|successful
StateTable ==
    {<<<<"p", "e", "n", "d", "i", "n", "g">>,
       <<"p", "e", "n", "d", "i", "n", "g">>>>,
     <<<<"w", "a", "i", "t", "i", "n", "g">>,
       <<"p", "e", "n", "d", "i", "n", "g">>>>,
     <<<<"r", "u", "n", "n", "i", "n", "g">>,
       <<"i", "n", "_", "p", "r", "o", "g", "r", "e", "s", "s">>>>,
     <<<<"i", "n", "_", "p", "r", "o", "g", "r", "e", "s", "s">>,
       <<"i", "n", "_", "p", "r", "o", "g", "r", "e", "s", "s">>>>,
     <<<<"c", "a", "n", "c", "e", "l", "l", "e", "d">>,
       <<"c", "a", "n", "c", "e", "l", "l", "e", "d">>>>,
     <<<<"k", "i", "l", "l", "e", "d">>,
       <<"c", "a", "n", "c", "e", "l", "l", "e", "d">>>>,
     <<<<"s", "t", "o", "p", "p", "e", "d">>,
       <<"c", "a", "n", "c", "e", "l", "l", "e", "d">>>>,
     <<<<"t", "e", "r", "m", "i", "n", "a", "t", "e", "d">>,
       <<"c", "a", "n", "c", "e", "l", "l", "e", "d">>>>,
     <<<<"f", "a", "i", "l", "e", "d">>,
       <<"f", "a", "i", "l", "e", "d">>>>,
     <<<<"f", "a", "i", "l", "u", "r", "e">>,
       <<"f", "a", "i", "l", "e", "d">>>>,
     <<<<"e", "r", "r", "o", "r">>,
       <<"f", "a", "i", "l", "e", "d">>>>,
     <<<<"e", "r", "r", "o", "r", "e", "d">>,
       <<"f", "a", "i", "l", "e", "d">>>>,
     <<<<"r", "o", "l", "l", "b", "a", "c", "k">>,
       <<"r", "o", "l", "l", "e", "d", "_", "b", "a", "c", "k">>>>,
     <<<<"r", "o", "l", "l", "e", "d", "_", "b", "a", "c", "k">>,
       <<"r", "o", "l", "l", "e", "d", "_", "b", "a", "c", "k">>>>,
     <<<<"s", "u", "c", "c", "e", "s", "s">>,
       <<"s", "u", "c", "c", "e", "s", "s", "f", "u", "l">>>>,
     <<<<"s", "u", "c", "c", "e", "s", "s", "f", "u", "l">>,
       <<"s", "u", "c", "c", "e", "s", "s", "f", "u", "l">>>>}

StateUnknown == <<"u", "n", "k", "n", "o", "w", "n">>

\* the seven values a normalised state can have
StateOutputs == {e[2] : e \in StateTable} \cup {StateUnknown}

\* C12: toStateEnum maps every string, in whatever case, by the table of
\* states; every other string, the empty one included, gives unknown; the
\* result is one of the seven values and is the input only if the input is
\* one of them.
C12_StateEnumTable ==
    pc = "toStateEnum" =>
        /\ out = Lookup(StateTable, args.State, StateUnknown)
        /\ out \in StateOutputs
        /\ out = args.State => args.State \in StateOutputs

\* a word of the table written in capitals has been normalised
C12_Witness ==
    /\ pc = "toStateEnum"
    /\ args.State = <<"K", "I", "L", "L", "E", "D">>
    /\ out = <<"c", "a", "n", "c", "e", "l", "l", "e", "d">>

\* prod|production, stage|staging, dev|development, testing|test
EnvironmentTable ==
    {<<<<"p", "r", "o", "d">>,
       <<"p", "r", "o", "d", "u", "c", "t", "i", "o", "n">>>>,
     <<<<"p", "r", "o", "d", "u", "c", "t", "i", "o", "n">>,
       <<"p", "r", "o", "d", "u", "c", "t", "i", "o", "n">>>>,
     <<<<"s", "t", "a", "g", "e">>,
       <<"s", "t", "a", "g", "i", "n", "g">>>>,
     <<<<"s", "t", "a", "g", "i", "n", "g">>,
       <<"s", "t", "a", "g", "i", "n", "g">>>>,
     <<<<"d", "e", "v">>,
       <<"d", "e", "v", "e", "l", "o", "p", "m", "e", "n", "t">>>>,
     <<<<"d", "e", "v", "e", "l", "o", "p", "m", "e", "n", "t">>,
       <<"d", "e", "v", "e", "l", "o", "p", "m", "e", "n", "t">>>>,
     <<<<"t", "e", "s", "t", "i", "n", "g">>,
       <<"t", "e", "s", "t", "i", "n", "g">>>>,
     <<<<"t", "e", "s", "t">>,
       <<"t", "e", "s", "t", "i", "n", "g">>>>}

EnvironmentUnmapped == <<"u", "n", "m", "a", "p", "p", "e", "d">>

EnvironmentDefault == <<"p", "r", "o", "d", "u", "c", "t", "i", "o", "n">>

EnvironmentOutputs == {e[2] : e \in EnvironmentTable} \cup {EnvironmentUnmapped}

\* the environment the settings a stand for: the name, else the deploy
\* target, else production
ResolvedEnvironment(a) ==
    IF a.EnvironmentName # <<>>
    THEN Lookup(EnvironmentTable, a.EnvironmentName, EnvironmentUnmapped)
    ELSE IF a.Deploy.Target # <<>>
    THEN Lookup(EnvironmentTable, a.Deploy.Target, EnvironmentUnmapped)
    ELSE EnvironmentDefault

\* C13: the resolved environment is one of production, staging, development,
\* testing, unmapped: the mapping of a non-empty environment name in whatever
\* case, else the mapping of a non-empty deploy target, else production.
C13_ResolvedEnvironment ==
    pc = "toEnvironment" =>
        /\ out \in EnvironmentOutputs
        /\ out = ResolvedEnvironment(args)

\* no environment name, the deploy target decides
C13_Witness ==
    /\ pc = "toEnvironment"
    /\ args.EnvironmentName = <<>>
    /\ args.Deploy.Target = <<"S", "T", "A", "G", "E">>
    /\ out = <<"s", "t", "a", "g", "i", "n", "g">>

C16_EnvironmentTypeDefaultsToProduction ==
    pc = "toEnvironmentType" =>
        /\ args.EnvironmentType # <<>> => out = args.EnvironmentType
        /\ (/\ args.EnvironmentType = <<>>
            /\ args.EnvironmentName = <<>>
            /\ args.Deploy.Target = <<>>) => out = <<"p", "r", "o", "d", "u", "c", "t", "i", "o", "n">>

----------------------------------------------------------------------------
\* the setting is taken for a URL: it holds "://"
HasScheme(raw) == \E i \in 1..Len(raw) : PrefixAt(<<":", "/", "/">>, raw, i)

\* the text of t before its first dot, t itself when it has no dot
TextBeforeFirstDot(t) ==
    LET n == CHOOSE n \in 0..Len(t) :
                 /\ \A k \in 1..n : t[k] # "."
                 /\ n = Len(t) \/ t[n + 1] = "."
    IN  SubSeq(t, 1, n)

\* C17: ExtractInstanceName applied to its own result returns that result,
\* for every setting: with a scheme, with a URL that does not parse, with an
\* empty host name.
C17_ExtractInstanceNameIdempotent ==
    pc = "ExtractInstanceNameAgain" => out[2] = out[1]

\* a setting with a scheme that does not parse, applied twice
C17_Witness ==
    /\ pc = "ExtractInstanceNameAgain"
    /\ args.Instance = <<":", "/", "/", "b", ".", "c">>
    /\ out = <<<<":", "/", "/", "b", ".", "c">>, <<":", "/", "/", "b", ".", "c">>>>

\* raw is  letters "://" host  followed by nothing, by a port of digits, by
\* a path, or by both; host has no ":" and no "/"
PlainURLHost(raw) ==
    LET i    == CHOOSE i \in 1..Len(raw) :
                    /\ PrefixAt(<<":", "/", "/">>, raw, i)
                    /\ \A k \in 1..(i - 1) : ~PrefixAt(<<":", "/", "/">>, raw, k)
        auth == SubSeq(raw, i + 3, Len(raw))
        n    == CHOOSE n \in 0..Len(auth) :
                    /\ \A k \in 1..n : auth[k] \notin {":", "/"}
                    /\ n = Len(auth) \/ auth[n + 1] \in {":", "/"}
        m    == CHOOSE m \in n..Len(auth) :
                    /\ \A k \in (n + 1)..m : auth[k] # "/"
                    /\ m = Len(auth) \/ auth[m + 1] = "/"
    IN  [plain |-> /\ i > 1
                   /\ \A k \in 1..(i - 1) : raw[k] \in Letters
                   /\ \A k \in (n + 2)..m : auth[k] \in Digits,
         host  |-> SubSeq(auth, 1, n)]

----------------------------------------------------------------------------
\* the byte at position i of b is the second byte of a two-byte character
IsContinuation(b, i) == i > 1 /\ b[i] = "A9" /\ b[i - 1] = "C3"

\* the number of characters of the byte string b (utf8.RuneCountInString)
RuneCount(b) == Cardinality({i \in 1..Len(b) : ~IsContinuation(b, i)})

\* the first k characters of b
FirstCharacters(b, k) ==
    LET n == CHOOSE n \in 0..Len(b) :
                 /\ RuneCount(SubSeq(b, 1, n)) = k
                 /\ ~IsContinuation(b, n + 1) \/ n = Len(b)
    IN  SubSeq(b, 1, n)

\* C19: the description of the deployment and of the build payload is never
\* longer than 255 characters: a commit message of at most 255 characters
\* is passed unchanged, a longer one is its first 252 characters followed by
\* "...".
C19_DescriptionWithin255Characters ==
    pc = "payloads" =>
        \A k \in 1..2 :
            LET m == args.Commit.Message
                d == out[k]
            IN  /\ RuneCount(d) <= 255
                /\ RuneCount(m) <= 255 => d = m
                /\ RuneCount(m) > 255 =>
                       d = FirstCharacters(m, 252) \o <<".", ".", ".">>

----------------------------------------------------------------------------
\* the answer res accepts the request: it arrived and its status is 2xx
Accepted(res) == ~res.neterr /\ res.status >= 200 /\ res.status <= 299

\* the bulk POST of the run has been answered and accepted
BulkAccepted ==
    \E i \in BulkCalls : i <= Len(responses) /\ Accepted(responses[i])

\* C20: a card is handed to writeCard in a run if and only if the bulk POST
\* of the run was accepted; it is the last step: a run that ends with an
\* error has no card, and once the card is written no request is issued.
C20_CardIffReportAccepted ==
    /\ [](cards # <<>> <=> BulkAccepted)
    /\ [](Len(cards) <= 1)
    /\ [](cards # <<>> => Done /\ err = "nil")
    /\ [](Done /\ err # "nil" => cards = <<>>)
    /\ [][cards # <<>> => calls' = calls /\ cards' = cards]_vars

\* the bulk POST was answered 299 and the card has been written
C20_Witness ==
    /\ Done
    /\ Len(cards) = 1
    /\ Len(responses) = Len(calls)
    /\ responses[Len(responses)].status = 299
    /\ calls[Len(calls)].kind = "bulk"

----------------------------------------------------------------------------
\* the report succeeded and the sink did not take the card
CardWriteFailed ==
    /\ BulkAccepted
    /\ written # <<>>
    /\ ~written[Len(written)]

\* C21: when the report has succeeded but writing the status card fails,
\* the run ends with a non-nil error.
C21_CardWriteFailureIsTerminalError ==
    Done /\ CardWriteFailed => err # "nil"

----------------------------------------------------------------------------
\* the errors a cancelled or timed-out context gives (context.Canceled,
\* context.DeadlineExceeded)
CancellationErrors == {"context canceled", "context deadline exceeded"}

\* C22: a cancellation or timeout of Exec's context while a request is in
\* flight aborts that request and ends the run with a cancellation error;
\* after the cancellation no answer is acted on and no request is started.
C22_CancellationEndsRun ==
    /\ [](Done /\ ctx = "cancelled" => err \in CancellationErrors)
    /\ [][ctx = "cancelled" => calls' = calls /\ responses' = responses]_vars

----------------------------------------------------------------------------
\* the rank of a request in the order of the steps of a run
StepRank(kind) ==
    CASE kind = "tenant_info" -> 1
      [] kind \in {"oauth_token", "connect_token"} -> 2
      [] kind = "bulk" -> 3

\* the request i of the run was answered, and not with a 2xx status
StepFailed(i) == i <= Len(responses) /\ ~Accepted(responses[i])

\* C23: the requests of a run come in the order tenant lookup, token, bulk
\* report, each step at most once; when a step fails (transport error or a
\* status outside 2xx) the run ends with an error, and no request follows the
\* failed one.
C23_StepsInOrderFailFast ==
    /\ \A i, k \in DOMAIN calls :
           i < k => StepRank(calls[i].kind) < StepRank(calls[k].kind)
    /\ \A i \in DOMAIN calls :
           StepFailed(i) =>
               /\ Len(calls) = i
               /\ Done
               /\ err \in {ErrTenantLookup, ErrTransport, ErrStatusCode}

----------------------------------------------------------------------------
\* the run took the OAuth branch of Exec
OauthRun == HasOauthPair /\ pc # "start" /\ err # ErrIssueNotFound

\* the instance name Exec works with
InstanceName == ExtractInstanceName(args.Instance)

\* C24: in the OAuth flow, a non-empty instance name is looked up and the
\* cloud id of the answer is the one used, a transport error or a status
\* outside 2xx ending the run with the tenant lookup error; with an empty
\* instance name the supplied cloud id is used without a lookup; with both
\* empty the run fails with the missing cloud id error before any request.
C24_CloudIdResolution ==
    OauthRun =>
        /\ InstanceName # <<>> =>
               /\ calls[1] = TenantInfoRequest(InstanceName)
               /\ StepFailed(1) =>
                      Done /\ err = ErrTenantLookup /\ Len(calls) = 1
               /\ (/\ Len(responses) >= 1
                   /\ Accepted(responses[1])
                   /\ responses[1].body = "cloudId") =>
                      /\ cloudID = "tenant-cloud"
                      /\ calls[2].kind = "oauth_token"
        /\ InstanceName = <<>> /\ args.CloudID # "" =>
               /\ CallsOfKind("tenant_info") = {}
               /\ cloudID = args.CloudID
               /\ calls[1].kind = "oauth_token"
        /\ InstanceName = <<>> /\ args.CloudID = "" =>
               Done /\ err = ErrCloudIdEmpty /\ calls = <<>>
        /\ \A i \in BulkCalls : calls[i].cloudId = cloudID

\* instance name and cloud id both given: the tenant was looked up and its
\* cloud id went into the report
C24_Witness ==
    /\ OauthRun
    /\ InstanceName # <<>>
    /\ args.CloudID # ""
    /\ \E i \in BulkCalls : calls[i].cloudId = "tenant-cloud"
    /\ Succeeded

----------------------------------------------------------------------------
\* C25: the tenant is looked up only when an instance name is given and no
\* cloud id was supplied: in a run with a supplied cloud id the tenant-info
\* endpoint is never called and the supplied cloud id is the one of the
\* report endpoint.
C25_NoLookupWithSuppliedCloudId ==
    /\ CallsOfKind("tenant_info") # {} =>
           InstanceName # <<>> /\ args.CloudID = ""
    /\ args.CloudID # "" =>
           \A i \in BulkCalls :
               calls[i].host = "api.atlassian.com" =>
                   calls[i].cloudId = args.CloudID

----------------------------------------------------------------------------
\* the OAuth token request of the run was answered with res
OauthTokenAnswer(res) ==
    \E i \in CallsOfKind("oauth_token") :
        i <= Len(responses) /\ responses[i] = res

\* C26: in the OAuth flow a token answer with a status outside 2xx, or with
\* a 2xx status and a JSON body without a string access_token, ends the run
\* with a returned error (not a crash), and no bulk POST is issued.
C26_BadOauthTokenIsReturnedError ==
    \A res \in OauthTokenResponses :
        (/\ OauthTokenAnswer(res)
         /\ ~res.neterr
         /\ ~Accepted(res) \/ res.body = "noAccessToken") =>
            /\ Done
            /\ err \in {ErrStatusCode, ErrJSON, ErrTransport}
            /\ BulkCalls = {}

----------------------------------------------------------------------------
\* C27: the references of the build payload have at most one entry; it has
\* a commit sub-record iff the revision or the commit link is non-empty, and
\* a ref sub-record, named by the branch and pointing at {link}/refs/{branch},
\* iff branch and commit link are both non-empty; when neither is present
\* (also with only the branch set) the list is empty and is left out of the
\* serialised payload.
C27_BuildReferences ==
    pc = "marshalled" =>
        LET c      == args.Commit
            refs   == out.build.references
            commit == c.Rev # <<>> \/ c.Link # <<>>
            ref    == c.Branch # <<>> /\ c.Link # <<>>
        IN  /\ Len(refs) <= 1
            /\ Len(refs) = 1 <=> commit \/ ref
            /\ Len(refs) = 1 =>
                   /\ ~refs[1].Commit.nil <=> commit
                   /\ commit => /\ refs[1].Commit.ID = c.Rev
                                /\ refs[1].Commit.RepositoryURI = c.Link
                   /\ ~refs[1].Ref.nil <=> ref
                   /\ ref => /\ refs[1].Ref.Name = c.Branch
                             /\ refs[1].Ref.URI =
                                    c.Link \o <<"/", "r", "e", "f", "s", "/">>
                                           \o c.Branch
                   /\ "commit" \in out.json.references[1] <=> commit
                   /\ "ref" \in out.json.references[1] <=> ref
            /\ "references" \in out.json.keys <=> commit \/ ref

\* only the branch is set: no entry, no "references" key
C27_Witness ==
    /\ pc = "marshalled"
    /\ args.Commit.Branch # <<>>
    /\ args.Commit.Link = <<>>
    /\ args.Commit.Rev = <<>>
    /\ out.build.references = <<>>
    /\ "references" \notin out.json.keys

----------------------------------------------------------------------------
\* the connect token request of the run was answered and accepted
ConnectTokenAccepted ==
    \E i \in CallsOfKind("connect_token") :
        i <= Len(responses) /\ Accepted(responses[i])

\* C28: in the connect flow a bulk POST is issued only after the connect
\* token endpoint answered with a 2xx status; an answer with another status
\* ends the run with an error, its body is not used as the bearer token.
C28_ConnectTokenStatusChecked ==
    /\ \A i \in BulkCalls :
           (\E k \in CallsOfKind("connect_token") : k < i) =>
               ConnectTokenAccepted
    /\ \A k \in CallsOfKind("connect_token") :
           StepFailed(k) => Done /\ err # "nil" /\ BulkCalls = {}

\* C29: the card of a successful report has one URL per resolved issue key,
\* in the order of the keys of the payload, each
\* https://<name>.atlassian.net/browse/<key> with <name> the resolved
\* instance name, which is also the card's instance and the site the connect
\* endpoints were addressed with, whatever the form of the instance setting.
C29_CardLinksUseInstanceName ==
    \A c \in DOMAIN cards :
        LET card == cards[c]
        IN  /\ Len(card.URL) = Len(issues)
            /\ \A i \in BulkCalls :
                   /\ calls[i].payload.issueKeys = issues
                   /\ calls[i].host = "{site}.atlassian.net" =>
                          calls[i].site = card.Instance
            /\ card.Instance = InstanceName
            /\ \A k \in DOMAIN card.URL :
                   /\ card.URL[k].key = issues[k]
                   /\ card.URL[k].site = card.Instance

====
